---- MODULE Spec2Model ----
(***************************************************************************)
(* Model of WriteBatchExecutor (batch_executor.cpp): executeBatch applies  *)
(* the items of one batched write request one at a time through            *)
(* applyWriteItem / doWrite / doInsert / doUpdate / doDelete, enforces the *)
(* write concern and, on a stale shard version, refreshes the metadata.    *)
(* The store, the durability waiter, the write-concern parser and the      *)
(* sharding state are collaborators: their results are inputs drawn from   *)
(* small sets at the call site.                                            *)
(***************************************************************************)
EXTENDS Integers, Sequences, FiniteSets, TLC

\* ---------------------------------------------------------------- bounds
MaxItems == 3        \* largest request.sizeWriteOps()
MaxDocs == 1         \* largest numMatched / numDocsModified / deleted count of one item
MaxFaults == 1       \* PageFaultExceptions raised per item before the store stops faulting
MaxBatches == 2      \* executeBatch calls in the resubmission specification

\* ------------------------------------------------------------ error codes
StaleShardVersion == "StaleShardVersion"
CannotCreateIndex == "CannotCreateIndex"
BadValue == "BadValue"
InternalError == "InternalError"
WriteConcernFailed == "WriteConcernFailed"
IndexAlreadyExists == "IndexAlreadyExists"
DuplicateKey == "DuplicateKey"
FailedToParse == "FailedToParse"
UnknownError == "UnknownError"
OK == "OK"

\* codes a store / validation failure can carry (Status or UserException)
StoreCodes == {DuplicateKey}
\* codes of a failed WriteConcernOptions::parse
ParseStatuses == {OK, FailedToParse}
\* codes of the Status returned by waitForWriteConcern
WaitStatuses == {OK, UnknownError}

BatchType_Insert == "insert"
BatchType_Update == "update"
BatchType_Delete == "delete"
BatchTypes == {BatchType_Insert, BatchType_Update, BatchType_Delete}

\* ---------------------------------------------------------- ChunkVersion
UNSHARDED == [epoch |-> 0, major |-> 0]
IGNORED == [epoch |-> -1, major |-> 0]
NoVersion == [epoch |-> -2, major |-> 0]
\* the versions of a sharded collection: one epoch, an older and a newer major
ShardedVersions == {[epoch |-> 1, major |-> 1], [epoch |-> 1, major |-> 2]}

\* ChunkVersion::isIgnoredVersion( requestShardVersion ), doWrite line 370: TRUE
\* for the IGNORED sentinel alone, and the version check is then skipped; every
\* other declared version, UNSHARDED (0|0) included, is checked
isIgnoredVersion(v) == v = IGNORED

\* ChunkVersion::isWriteCompatibleWith: equal epoch and an equal-or-newer
\* ordering component of the declared version against the local one.
isWriteCompatibleWith(declared, local) ==
    /\ declared.epoch = local.epoch
    /\ declared.major >= local.major

ShardNames == {"shardA", "shardB"}

\* ------------------------------------------------------------- WriteStats
ZeroStats == [numInserted |-> 0, numUpdated |-> 0, numModified |-> 0,
              numUpserted |-> 0, numDeleted |-> 0]

NoError == [code |-> "", vWanted |-> NoVersion]

\* What one attempt of doWrite hands back: the boolean it returns (ret), whether
\* a PageFaultException left it instead (fault), the WriteErrorDetail fields it
\* set, the increments of the WriteStats, the upserted id (0 = empty BSONObj),
\* and what it did to the collaborators: handler = 1 when doInsert / doUpdate /
\* doDelete was entered, store = 1 when the store's mutating call was made,
\* logged = number of logOp records written by the handler.  uncaught is TRUE
\* when an exception no catch clause names left doWrite.  calls lists, in the
\* order doInsert made them, its calls of the store's mutating function and of
\* logOp.
Attempt(ret, fault, err, dstats, upsertedID, handler, store, logged) ==
    [ret |-> ret, fault |-> fault, err |-> err, dstats |-> dstats,
     upsertedID |-> upsertedID, handler |-> handler, store |-> store,
     logged |-> logged, uncaught |-> FALSE, calls |-> <<>>]

\* the attempt a of doInsert with the calls it made
Calls(a, calls) == [a EXCEPT !.calls = calls]

Failure(code, store, logged) ==
    Attempt(FALSE, FALSE, [code |-> code, vWanted |-> NoVersion], ZeroStats, 0,
            1, store, logged)

\* PageFault of a handler that counts its document before the store call
PageFault_Counted ==
    Attempt(TRUE, TRUE, NoError, [ZeroStats EXCEPT !.numInserted = 1], 0, 1, 1, 0)

\* a PageFaultException raised by the store call of a handler: it comes before
\* the handler touches *stats, *upsertedID or *error
PageFault == Attempt(TRUE, TRUE, NoError, ZeroStats, 0, 1, 1, 0)

\* The handlers' catch clauses name UserException only, and applyWriteItem's
\* names PageFaultException only: an exception of another type (an assertion)
\* raised under a handler leaves the handler, doWrite and applyWriteItem.
Uncaught ==
    [Attempt(FALSE, FALSE, NoError, ZeroStats, 0, 1, 1, 0) EXCEPT !.uncaught = TRUE]

\* static void toBatchedError( const UserException& ex, WriteErrorDetail* error )
toBatchedError(exCode) == [code |-> exCode, vWanted |-> NoVersion]

\* static void buildStaleError( received, wanted, error )
buildStaleError(shardVersionRecvd, shardVersionWanted) ==
    [code |-> StaleShardVersion, vWanted |-> shardVersionWanted]

\* static void buildUniqueIndexError( keyPattern, indexPattern, error )
buildUniqueIndexError == [code |-> CannotCreateIndex, vWanted |-> NoVersion]

\* ------------------------------------------------- behaviours of the store
\* What the store does when one insert is applied to an ordinary collection.
InsertBehaviours ==
    [kind : {"fault", "assertion", "createFail", "ok"}, code : {OK}]
    \cup [kind : {"throw", "fixFail", "insertFail"}, code : StoreCodes]

\* What the store does when one index is created through system.indexes.
IndexBehaviours ==
    [kind : {"fault", "assertion", "nsNotString", "createFail", "ok"}, code : {OK}]
    \cup [kind : {"indexFail"}, code : StoreCodes \cup {IndexAlreadyExists}]
    \cup [kind : {"throw"}, code : StoreCodes]

\* What update() does: raise, or return an UpdateResult.
UpdateBehaviours ==
    [kind : {"fault", "assertion"}, code : {OK}, numMatched : {0},
     numDocsModified : {0}, upserted : {0}]
    \cup [kind : {"throw"}, code : StoreCodes, numMatched : {0},
          numDocsModified : {0}, upserted : {0}]
    \cup {b \in [kind : {"res"}, code : {OK}, numMatched : 0..MaxDocs,
                 numDocsModified : 0..MaxDocs, upserted : {0, 1}] :
            b.upserted = 0 => b.numDocsModified <= b.numMatched}

\* What deleteObjects() does: raise, or return the number of documents removed.
DeleteBehaviours ==
    [kind : {"fault", "assertion"}, code : {OK}, n : {0}]
    \cup [kind : {"throw"}, code : StoreCodes, n : {0}]
    \cup [kind : {"res"}, code : {OK}, n : 0..MaxDocs]

\* ---------------------------------------------------- operation handlers
\* WriteBatchExecutor::doInsert, the system.indexes branch.  createIndex can
\* answer IndexAlreadyExists: doInsert then returns true at once.
doInsertIndex(b) ==
    CASE b.kind = "fault" -> Calls(PageFault, <<"createIndex">>)
      [] b.kind = "assertion" -> Calls(Uncaught, <<"createIndex">>)
      [] b.kind = "nsNotString" -> Failure(BadValue, 0, 0)
      [] b.kind = "createFail" -> Failure(InternalError, 0, 0)
      [] b.kind = "indexFail" ->
            IF b.code = IndexAlreadyExists
            THEN Calls(Attempt(TRUE, FALSE, NoError, ZeroStats, 0, 1, 1, 0),
                       <<"createIndex">>)
            ELSE Calls(Failure(b.code, 1, 0), <<"createIndex">>)
      [] b.kind = "throw" ->
            Calls(Attempt(FALSE, FALSE, toBatchedError(b.code), ZeroStats, 0, 1, 1, 0),
                  <<"createIndex">>)
      [] OTHER ->
            Calls(Attempt(TRUE, FALSE, NoError,
                          [ZeroStats EXCEPT !.numInserted = 1], 0, 1, 1, 1),
                  <<"createIndex", "logOp">>)

\* doInsertDocument counting the insert before the status of insertDocument is read
doInsertDocument_CountsFailed(b) ==
    CASE b.kind = "fault" -> Calls(PageFault, <<"insertDocument">>)
      [] b.kind = "assertion" -> Calls(Uncaught, <<"insertDocument">>)
      [] b.kind = "createFail" -> Failure(InternalError, 0, 0)
      [] b.kind = "fixFail" -> Failure(b.code, 0, 0)
      [] b.kind = "insertFail" ->
            Calls(Attempt(FALSE, FALSE, [code |-> b.code, vWanted |-> NoVersion],
                          [ZeroStats EXCEPT !.numInserted = 1], 0, 1, 1, 1),
                  <<"insertDocument", "logOp">>)
      [] b.kind = "throw" ->
            Calls(Attempt(FALSE, FALSE, toBatchedError(b.code), ZeroStats, 0, 1, 1, 0),
                  <<"insertDocument">>)
      [] OTHER ->
            Calls(Attempt(TRUE, FALSE, NoError,
                          [ZeroStats EXCEPT !.numInserted = 1], 0, 1, 1, 1),
                  <<"insertDocument", "logOp">>)

\* WriteBatchExecutor::doInsert, the ordinary collection branch.  logOp is
\* called after insertDocument and before its status is looked at.
doInsertDocument(b) ==
    CASE b.kind = "fault" -> Calls(PageFault, <<"insertDocument">>)
      [] b.kind = "assertion" -> Calls(Uncaught, <<"insertDocument">>)
      [] b.kind = "createFail" -> Failure(InternalError, 0, 0)
      [] b.kind = "fixFail" -> Failure(b.code, 0, 0)
      [] b.kind = "insertFail" ->
            Calls(Failure(b.code, 1, 1), <<"insertDocument", "logOp">>)
      [] b.kind = "throw" ->
            Calls(Attempt(FALSE, FALSE, toBatchedError(b.code), ZeroStats, 0, 1, 1, 0),
                  <<"insertDocument">>)
      [] OTHER ->
            Calls(Attempt(TRUE, FALSE, NoError,
                          [ZeroStats EXCEPT !.numInserted = 1], 0, 1, 1, 1),
                  <<"insertDocument", "logOp">>)

\* WriteBatchExecutor::doInsert
doInsert(systemIndexes, b) ==
    IF systemIndexes THEN doInsertIndex(b) ELSE doInsertDocument(b)

\* update() called with request.setUpdateOpLog(), deleteObjects() called with
\* logOp = true: the store writes the oplog record of a call that changed or
\* removed something
storeLogged(logOp, changed) == IF logOp /\ changed THEN 1 ELSE 0

\* doUpdate counting the matched and modified documents of an upsert as well
doUpdate_CountsUpsertAsUpdate(b) ==
    CASE b.kind = "fault" -> PageFault
      [] b.kind = "assertion" -> Uncaught
      [] b.kind = "throw" ->
            Attempt(FALSE, FALSE, toBatchedError(b.code), ZeroStats, 0, 1, 1, 0)
      [] OTHER ->
            LET didInsert == b.upserted # 0
            IN Attempt(TRUE, FALSE, NoError,
                       [ZeroStats EXCEPT
                          !.numModified = b.numDocsModified,
                          !.numUpdated = b.numMatched,
                          !.numUpserted = IF didInsert THEN 1 ELSE 0],
                       IF didInsert THEN b.upserted ELSE 0, 1, 1,
                       storeLogged(TRUE, didInsert \/ b.numDocsModified > 0))

\* WriteBatchExecutor::doUpdate
doUpdate(b) ==
    CASE b.kind = "fault" -> PageFault
      [] b.kind = "assertion" -> Uncaught
      [] b.kind = "throw" ->
            Attempt(FALSE, FALSE, toBatchedError(b.code), ZeroStats, 0, 1, 1, 0)
      [] OTHER ->
            LET didInsert == b.upserted # 0
            IN Attempt(TRUE, FALSE, NoError,
                       [ZeroStats EXCEPT
                          !.numModified = IF didInsert THEN 0 ELSE b.numDocsModified,
                          !.numUpdated = IF didInsert THEN 0 ELSE b.numMatched,
                          !.numUpserted = IF didInsert THEN 1 ELSE 0],
                       IF didInsert THEN b.upserted ELSE 0, 1, 1,
                       storeLogged(TRUE, didInsert \/ b.numDocsModified > 0))

\* WriteBatchExecutor::doDelete
doDelete(b) ==
    CASE b.kind = "fault" -> PageFault
      [] b.kind = "assertion" -> Uncaught
      [] b.kind = "throw" ->
            Attempt(FALSE, FALSE, toBatchedError(b.code), ZeroStats, 0, 1, 1, 0)
      [] OTHER ->
            Attempt(TRUE, FALSE, NoError, [ZeroStats EXCEPT !.numDeleted = b.n],
                    0, 1, 1, storeLogged(TRUE, b.n > 0))

\* the store behaviours one item of the request can meet
Behaviours(r) ==
    CASE r.type = BatchType_Insert ->
            IF r.systemIndexes THEN IndexBehaviours ELSE InsertBehaviours
      [] r.type = BatchType_Update -> UpdateBehaviours
      [] OTHER -> DeleteBehaviours

\* isStale skipping the check when no metadata is cached, instead of comparing
\* against UNSHARDED
isStale_OnlyWithMetadata(r, enabled, md) ==
    /\ enabled
    /\ md.present
    /\ r.hasMetadata
    /\ r.shardVersionSet
    /\ ~isIgnoredVersion(r.shardVersion)
    /\ ~isWriteCompatibleWith(r.shardVersion, md.shardVersion)

\* The shard version check at the head of WriteBatchExecutor::doWrite: TRUE when
\* the request's declared version is refused against the cached metadata md.
isStale(r, enabled, md) ==
    /\ enabled
    /\ r.hasMetadata
    /\ r.shardVersionSet
    /\ ~isIgnoredVersion(r.shardVersion)
    /\ ~isWriteCompatibleWith(r.shardVersion,
                              IF md.present THEN md.shardVersion ELSE UNSHARDED)

\* WriteBatchExecutor::doWrite
doWrite(r, enabled, md, b) ==
    IF isStale(r, enabled, md)
    THEN Attempt(FALSE, FALSE,
                 buildStaleError(r.shardVersion,
                                 IF md.present THEN md.shardVersion ELSE UNSHARDED),
                 ZeroStats, 0, 0, 0, 0)
    ELSE IF r.type = BatchType_Insert
    THEN IF enabled /\ md.present /\ r.uniqueIndex = "incompatible"
         THEN Attempt(FALSE, FALSE, buildUniqueIndexError, ZeroStats, 0, 0, 0, 0)
         ELSE doInsert(r.systemIndexes, b)
    ELSE IF r.type = BatchType_Update
    THEN doUpdate(b)
    ELSE doDelete(b)

\* AddStats assigning the counters of the last attempt instead of adding them
AddStats_Overwrites(s, d) == d

\* stats->numInserted++, stats->numModified += ..., stats->numUpdated += ...,
\* stats->numUpserted += ..., stats->numDeleted += n
AddStats(s, d) ==
    [numInserted |-> s.numInserted + d.numInserted,
     numUpdated |-> s.numUpdated + d.numUpdated,
     numModified |-> s.numModified + d.numModified,
     numUpserted |-> s.numUpserted + d.numUpserted,
     numDeleted |-> s.numDeleted + d.numDeleted]

NoWCError == [set |-> FALSE, code |-> "", info |-> ""]

\* buildWCError without the wtimeout info
buildWCError_NoTimeoutInfo(wcStatus, wcResult) ==
    IF wcStatus = OK /\ wcResult.err = ""
    THEN NoWCError
    ELSE [set |-> TRUE,
          code |-> IF wcStatus = OK THEN WriteConcernFailed ELSE wcStatus,
          info |-> ""]

\* static bool buildWCError( wcStatus, wcResult, wcError ): the WCErrorDetail it
\* fills, with set = its return value
buildWCError(wcStatus, wcResult) ==
    IF wcStatus = OK /\ wcResult.err = ""
    THEN NoWCError
    ELSE [set |-> TRUE,
          code |-> IF wcStatus = OK THEN WriteConcernFailed ELSE wcStatus,
          info |-> IF wcResult.wTimedOut THEN "wtimeout" ELSE ""]

\* WriteConcernResult values waitForWriteConcern can fill in
WaitResults == [err : {"", "timeout"}, wTimedOut : BOOLEAN]

\* ------------------------------------------------------------------ state
VARIABLES
    req,             \* the BatchedCommandRequest (immutable)
    shardingEnabled, \* shardingState.enabled()
    metadata,        \* shardingState's cached CollectionMetadata of the targeting ns
    shardName,       \* shardingState's shard name, "" while unset
    lockHeld,        \* Lock::DBWrite on the namespace is held by the batch
    checkedMetadata, \* doWrite: the CollectionMetadataPtr metadata it has read from
                     \* shardingState, NoMetadata outside doWrite
    oplog,           \* number of oplog records written by the logOp calls of doInsert
                     \* and by the store for doUpdate and doDelete; the
                     \* client's last op (update() and deleteObjects() log on their own)
    pc,              \* position inside executeBatch / applyWriteItem
    i,               \* executeBatch: loop index
    stats,           \* executeBatch: WriteStats
    numItemErrors,   \* executeBatch: numItemErrors
    staleBatch,      \* executeBatch: staleBatch
    error,           \* executeBatch: the WriteErrorDetail handed to applyWriteItem
    upsertedID,      \* executeBatch: upsertedID of the current item (0 = empty)
    opSuccess,       \* applyWriteItem: opSuccess
    faults,          \* PageFaultExceptions raised for the item being applied
    response,        \* the BatchedCommandResponse
    lastAttempt,     \* history: what the doWrite calls of the item being applied did last
    attemptIndex,    \* history: item index of the latest lock acquisition, -1 if none
    outcomes,        \* history: the value applyWriteItem returned for each item attempted
    hist             \* history: whether an item failed on a stale version, what write
                     \* concern enforcement and stale handling did, which executeBatch
                     \* call of the request this is and how the one before ended

vars == <<req, shardingEnabled, metadata, shardName, lockHeld, checkedMetadata, oplog,
          pc, i, stats,
          numItemErrors, staleBatch, error, upsertedID, opSuccess, faults, response,
          lastAttempt, attemptIndex, outcomes, hist>>

\* requestMetadata->getShardName(): the shard name the request was sent to
RequestShardName == "shardA"

\* the same request declared with every kind of BatchedRequestMetadata
RequestMetadata ==
    [hasMetadata : {FALSE}, shardVersionSet : {FALSE}, shardVersion : {NoVersion}]
    \cup [hasMetadata : {TRUE}, shardVersionSet : {FALSE}, shardVersion : {NoVersion}]
    \cup [hasMetadata : {TRUE}, shardVersionSet : {TRUE},
          shardVersion : {IGNORED, UNSHARDED} \cup ShardedVersions]

\* insert requests: into a collection, or into system.indexes (a unique index
\* request has a key pattern that fits the shard key pattern or does not)
RequestKinds ==
    [type : {BatchType_Insert}, systemIndexes : {FALSE}, uniqueIndex : {"no"}]
    \cup [type : {BatchType_Insert}, systemIndexes : {TRUE},
          uniqueIndex : {"no", "compatible", "incompatible"}]
    \cup [type : {BatchType_Update, BatchType_Delete}, systemIndexes : {FALSE},
          uniqueIndex : {"no"}]

Requests ==
    {[type |-> k.type, systemIndexes |-> k.systemIndexes, uniqueIndex |-> k.uniqueIndex,
      ordered |-> o, verbose |-> v, numItems |-> n,
      hasMetadata |-> m.hasMetadata, shardVersionSet |-> m.shardVersionSet,
      shardVersion |-> m.shardVersion] :
        k \in RequestKinds, o \in BOOLEAN, v \in BOOLEAN, n \in 0..MaxItems,
        m \in RequestMetadata}

NoMetadata == [present |-> FALSE, shardVersion |-> UNSHARDED]
Metadatas == {NoMetadata} \cup [present : {TRUE}, shardVersion : ShardedVersions]

EmptyResponse ==
    [errDetails |-> <<>>, upsertDetails |-> <<>>, wcError |-> NoWCError,
     n |-> -1, nModified |-> -1, lastOp |-> -1, ok |-> FALSE]

NoAttempt == Attempt(TRUE, FALSE, NoError, ZeroStats, 0, 0, 0, 0)

\* no handler has been entered for the item being applied
NoBehaviour == [kind |-> "none"]

NoHistory == [batch |-> 1, prevStaleOlder |-> FALSE, prevRefresh |-> "",
              behaviour |-> NoBehaviour, staleSeen |-> FALSE, staleOlder |-> FALSE,
              parseStatus |-> "", waited |-> FALSE, waitStatus |-> "",
              waitResult |-> [err |-> "", wTimedOut |-> FALSE], waitedFor |-> -1,
              setShardName |-> "", refresh |-> ""]

\* the locals of executeBatch as the function is entered
Locals ==
    /\ pc = "loop"
    /\ i = 0
    /\ stats = ZeroStats
    /\ numItemErrors = 0
    /\ staleBatch = FALSE
    /\ error = NoError
    /\ upsertedID = 0
    /\ opSuccess = TRUE
    /\ faults = 0
    /\ response = EmptyResponse
    /\ lastAttempt = NoAttempt
    /\ attemptIndex = -1
    /\ outcomes = <<>>
    /\ hist = NoHistory

\* A request arrives at a process whose sharding state is disabled, or enabled
\* with some metadata cached.  The shard name is read only by a batch that met
\* a stale version: such a batch finds it unset, equal to the request's or
\* different; every other batch starts with it unset.
Init ==
    /\ req \in Requests
    /\ shardingEnabled \in BOOLEAN
    /\ metadata \in (IF shardingEnabled THEN Metadatas ELSE {NoMetadata})
    /\ shardName \in (IF isStale(req, shardingEnabled, metadata)
                       THEN {""} \cup ShardNames ELSE {""})
    /\ lockHeld = FALSE
    /\ checkedMetadata = NoMetadata
    /\ oplog = 0
    /\ Locals

\* isVerboseWC with the flag lost: nothing is ever reported
isVerboseWC_Never(r) == FALSE

\* executeBatch: bool verbose = request.isVerboseWC()
isVerboseWC(r) == r.verbose

\* breaksOnError with the break lost: an ordered batch goes on after an error
breaksOnError_Never(r) == FALSE

\* breaksOnError with the test of ordered lost: every batch stops at its first error
breaksOnError_Always(r) == TRUE

\* breaksOnError with the break moved into the verbose block
breaksOnError_OnlyVerbose(r) == r.ordered /\ r.verbose

\* executeBatch: if ( request.getOrdered() ) break;
breaksOnError(r) == r.ordered

\* detectsStale with the comparison lost: any item error marks the batch stale
detectsStale_AnyError(err) == err.code # ""

\* executeBatch: if ( error->getErrCode() == ErrorCodes::StaleShardVersion )
detectsStale(err) == err.code = StaleShardVersion

\* executeBatch: if ( numItemErrors < numBatchItems ), the test that opens write
\* concern enforcement
appliesWriteConcern(nErrors, nItems) == nErrors < nItems

\* executeBatch: the argument of response->setN
countN(s) == s.numInserted + s.numUpserted + s.numUpdated + s.numDeleted

\* shardingState.setShardName( name ): the name is taken when none was set, and
\* accepted when it is the name set previously
setShardName(current, name) ==
    IF current = "" THEN [ok |-> TRUE, shardName |-> name]
    ELSE [ok |-> current = name, shardName |-> current]

\* shardingState.refreshMetadataIfNeeded( ns, reqShardVersion, &latest ): the
\* metadata the cache can hold after a refresh that worked
Refreshed(md, reqShardVersion) == Metadatas

\* ---------------------------------------------------------------- actions
\* executeBatch: for ( size_t i = 0; i < numBatchItems; i++ ), and the entry of
\* applyWriteItem for item i
LoopHead ==
    /\ pc = "loop"
    /\ IF i < req.numItems
       THEN /\ pc' = "lock"
            /\ upsertedID' = 0
            /\ opSuccess' = TRUE
            /\ faults' = 0
       ELSE /\ pc' = "lastop"
            /\ UNCHANGED <<upsertedID, opSuccess, faults>>
    /\ UNCHANGED <<req, checkedMetadata, shardingEnabled, metadata, shardName, lockHeld, oplog, i,
                   stats, numItemErrors, staleBatch, error, response, lastAttempt,
                   attemptIndex, outcomes, hist>>

\* applyWriteItem: Lock::DBWrite dbLock( ns ) at the head of one attempt
AcquireLock ==
    /\ pc = "lock"
    /\ ~lockHeld
    /\ lockHeld' = TRUE
    /\ attemptIndex' = i
    /\ pc' = "write"
    /\ UNCHANGED <<req, checkedMetadata, shardingEnabled, metadata, shardName, oplog, i, stats,
                   numItemErrors, staleBatch, error, upsertedID, opSuccess, faults,
                   response, lastAttempt, outcomes, hist>>

\* heldAfterAttempt with a lock that outlives a PageFaultException
heldAfterAttempt_OnFault(a) == a.fault

\* applyWriteItem: the closing brace of the block that declares
\* Lock::DBWrite dbLock( ns ).  However doWrite was left (return, PageFaultException,
\* any other exception), the lock is released there.
heldAfterAttempt(a) == FALSE

\* applyWriteItem: opSuccess = doWrite( ... ) under the lock, with md the
\* metadata doWrite has read from shardingState, and the end of the lock's
\* scope.  A PageFaultException leaves through the catch clause; an exception
\* of another type leaves applyWriteItem and executeBatch.  What the handler
\* did to *stats and to the oplog before an exception stays done; opSuccess is
\* assigned only when doWrite returns.
ApplyWrite(md) ==
    /\ lockHeld
    /\ \E b \in Behaviours(req) :
         LET a == doWrite(req, shardingEnabled, md, b) IN
         /\ a.fault => faults < MaxFaults
         /\ lastAttempt' = a
         /\ lockHeld' = heldAfterAttempt(a)
         /\ IF a.fault \/ a.uncaught
            THEN /\ pc' = IF a.fault THEN "touch" ELSE "aborted"
                 /\ stats' = AddStats(stats, a.dstats)
                 /\ oplog' = oplog + a.logged
                 /\ UNCHANGED <<opSuccess, error, upsertedID, outcomes>>
            ELSE /\ pc' = "item"
                 /\ opSuccess' = a.ret
                 /\ stats' = AddStats(stats, a.dstats)
                 /\ error' = IF a.ret THEN error ELSE a.err
                 /\ upsertedID' = IF a.upsertedID # 0 THEN a.upsertedID ELSE upsertedID
                 /\ oplog' = oplog + a.logged
                 /\ outcomes' = Append(outcomes, a.ret)
         /\ hist' = [hist EXCEPT
                      !.behaviour = IF a.handler = 1 THEN b ELSE NoBehaviour,
                      !.staleSeen =
                          @ \/ (~a.fault /\ ~a.ret /\ a.err.code = StaleShardVersion),
                      !.staleOlder =
                          @ \/ (/\ ~a.fault /\ ~a.ret /\ a.err.code = StaleShardVersion
                                /\ req.shardVersion.epoch = a.err.vWanted.epoch
                                /\ req.shardVersion.major < a.err.vWanted.major)]
    /\ UNCHANGED <<req, shardingEnabled, metadata, shardName, i, numItemErrors,
                   staleBatch, faults, response, attemptIndex>>

\* applyWriteItem: one call of doWrite, from the read of the cached metadata to
\* the end of the handler
DoWrite ==
    /\ pc = "write"
    /\ ApplyWrite(metadata)
    /\ UNCHANGED checkedMetadata

\* Touch leaving the retry loop: the item that faulted is given up and the
\* loop of executeBatch goes on with the next one
Touch_SkipsItem ==
    /\ pc = "touch"
    /\ faults' = 0
    /\ pc' = "loop"
    /\ i' = i + 1
    /\ UNCHANGED <<req, checkedMetadata, shardingEnabled, metadata, shardName,
                   lockHeld, oplog, stats, numItemErrors, staleBatch, error,
                   upsertedID, opSuccess, response, lastAttempt, attemptIndex,
                   outcomes, hist>>

\* applyWriteItem: catch ( PageFaultException& e ) { e.touch(); } and the next
\* turn of while ( true )
Touch ==
    /\ pc = "touch"
    /\ faults' = faults + 1
    /\ pc' = "lock"
    /\ UNCHANGED <<req, checkedMetadata, shardingEnabled, metadata, shardName, lockHeld, oplog, i,
                   stats, numItemErrors, staleBatch, error, upsertedID, opSuccess,
                   response, lastAttempt, attemptIndex, outcomes, hist>>

\* itemIndex with the loop index lost: every entry names item 0
itemIndex_Zero(k) == 0

\* executeBatch: setIndex( static_cast<int>( i ) ), the index an upsert detail
\* or an error detail is given
itemIndex(k) == k

\* executeBatch: the body of the loop after applyWriteItem has returned
ItemDone ==
    /\ pc = "item"
    /\ IF opSuccess
       THEN /\ response' =
                 IF upsertedID # 0 /\ isVerboseWC(req)
                 THEN [response EXCEPT !.upsertDetails =
                          Append(@, [index |-> itemIndex(i),
                                     upsertedID |-> upsertedID])]
                 ELSE response
            /\ i' = i + 1
            /\ pc' = "loop"
            /\ UNCHANGED <<staleBatch, numItemErrors, error>>
       ELSE /\ staleBatch' = (staleBatch \/ detectsStale(error))
            /\ response' =
                 IF isVerboseWC(req)
                 THEN [response EXCEPT !.errDetails =
                          Append(@, [index |-> itemIndex(i), code |-> error.code,
                                     vWanted |-> error.vWanted])]
                 ELSE response
            /\ numItemErrors' = numItemErrors + 1
            /\ IF breaksOnError(req)
               THEN /\ pc' = "lastop"
                    /\ i' = i
                    /\ error' = IF isVerboseWC(req) THEN NoError ELSE error
               ELSE /\ pc' = "loop"
                    /\ i' = i + 1
                    /\ error' = NoError
    /\ faults' = 0
    /\ lastAttempt' = NoAttempt
    /\ hist' = [hist EXCEPT !.behaviour = NoBehaviour]
    /\ UNCHANGED <<req, checkedMetadata, shardingEnabled, metadata, shardName,
                   lockHeld, oplog, stats, upsertedID, opSuccess, attemptIndex,
                   outcomes>>

\* executeBatch: response->setLastOp when anyReplEnabled() && verbose, and the
\* test that opens write concern enforcement
AfterLoop ==
    /\ pc = "lastop"
    /\ \E anyReplEnabled \in BOOLEAN :
         response' = IF anyReplEnabled /\ isVerboseWC(req)
                     THEN [response EXCEPT !.lastOp = oplog]
                     ELSE response
    /\ pc' = IF appliesWriteConcern(numItemErrors, req.numItems)
             THEN "wcparse" ELSE "body"
    /\ UNCHANGED <<req, checkedMetadata, shardingEnabled, metadata, shardName, lockHeld, oplog, i,
                   stats, numItemErrors, staleBatch, error, upsertedID, opSuccess,
                   faults, lastAttempt, attemptIndex, outcomes, hist>>

\* executeBatch: writeConcern.parse of the request's write concern when
\* isWriteConcernSet(), of _defaultWriteConcern otherwise
ParseWriteConcern ==
    /\ pc = "wcparse"
    /\ \E isWriteConcernSet \in BOOLEAN :
       \E status \in (IF isWriteConcernSet THEN ParseStatuses ELSE ParseStatuses) :
         /\ hist' = [hist EXCEPT !.parseStatus = status]
         /\ IF status # OK /\ isVerboseWC(req)
            THEN /\ response' = [response EXCEPT !.wcError =
                                    [set |-> TRUE, code |-> status, info |-> ""]]
                 /\ pc' = "body"
            ELSE /\ response' = response
                 /\ pc' = "wait"
    /\ UNCHANGED <<req, checkedMetadata, shardingEnabled, metadata, shardName, lockHeld, oplog, i,
                   stats, numItemErrors, staleBatch, error, upsertedID, opSuccess,
                   faults, lastAttempt, attemptIndex, outcomes>>

\* executeBatch: waitForWriteConcern( writeConcern, _client->getLastOp(), &res )
\* and buildWCError
WaitForWriteConcern ==
    /\ pc = "wait"
    /\ \E status \in WaitStatuses, res \in WaitResults :
         /\ hist' = [hist EXCEPT !.waited = TRUE, !.waitStatus = status,
                             !.waitResult = res, !.waitedFor = oplog]
         /\ response' =
              IF isVerboseWC(req) /\ buildWCError(status, res).set
              THEN [response EXCEPT !.wcError = buildWCError(status, res)]
              ELSE response
    /\ pc' = "body"
    /\ UNCHANGED <<req, checkedMetadata, shardingEnabled, metadata, shardName, lockHeld, oplog, i,
                   stats, numItemErrors, staleBatch, error, upsertedID, opSuccess,
                   faults, lastAttempt, attemptIndex, outcomes>>

\* executeBatch: response->setN and, for an update batch, setNDocsModified, and
\* the test if ( staleBatch )
SetBody ==
    /\ pc = "body"
    /\ response' =
         IF isVerboseWC(req)
         THEN [response EXCEPT
                 !.n = countN(stats),
                 !.nModified = IF req.type = BatchType_Update
                               THEN stats.numModified ELSE @]
         ELSE response
    /\ pc' = IF staleBatch THEN "stale" ELSE "return"
    /\ UNCHANGED <<req, checkedMetadata, shardingEnabled, metadata, shardName, lockHeld, oplog, i,
                   stats, numItemErrors, staleBatch, error, upsertedID, opSuccess,
                   faults, lastAttempt, attemptIndex, outcomes, hist>>

\* executeBatch: dassert( numItemErrors == numBatchItems ), the condition
\* asserted when setShardName has refused the request's shard name
allItemsFailed(nErrors, nItems) == nErrors = nItems

\* okOnReturn following the write concern error: not ok when one was reported
okOnReturn_UnlessWCError(resp) == ~resp.wcError.set

\* executeBatch: response->setOk( true )
okOnReturn(resp) == TRUE

\* dassert( cond ): a release build does not evaluate it; a debug build throws
\* when the condition is false
dassertThrows(debugBuild, cond) == debugBuild /\ ~cond

\* executeBatch, the stale batch: shardingState.setShardName of the request's
\* shard name (a call that may block), and, when the name is refused, the
\* dassert that every item failed; the exception of a failed dassert leaves
\* executeBatch
StaleSetShardName ==
    /\ pc = "stale"
    /\ LET set == setShardName(shardName, RequestShardName) IN
       /\ shardName' = set.shardName
       /\ IF set.ok
          THEN /\ hist' = [hist EXCEPT !.setShardName = "accepted"]
               /\ pc' = "refresh"
          ELSE /\ hist' = [hist EXCEPT !.setShardName = "refused"]
               /\ \E debugBuild \in BOOLEAN :
                    pc' = IF dassertThrows(debugBuild,
                                           allItemsFailed(numItemErrors, req.numItems))
                          THEN "asserted" ELSE "return"
    /\ UNCHANGED <<req, checkedMetadata, shardingEnabled, metadata, lockHeld, oplog, i,
                   stats, numItemErrors, staleBatch, error, upsertedID, opSuccess,
                   faults, response, lastAttempt, attemptIndex, outcomes>>

\* executeBatch, the stale batch whose shard name was accepted:
\* shardingState.refreshMetadataIfNeeded (a call that may block); a refresh that
\* fails is logged and leaves the cache as it was
StaleRefresh ==
    /\ pc = "refresh"
    /\ \/ /\ metadata' \in Refreshed(metadata, req.shardVersion)
          /\ hist' = [hist EXCEPT !.refresh = "done"]
       \/ /\ UNCHANGED metadata
          /\ hist' = [hist EXCEPT !.refresh = "failed"]
    /\ pc' = "return"
    /\ UNCHANGED <<req, checkedMetadata, shardingEnabled, shardName, lockHeld, oplog, i,
                   stats, numItemErrors, staleBatch, error, upsertedID, opSuccess,
                   faults, response, lastAttempt, attemptIndex, outcomes>>

\* executeBatch: response->setOk( true ) and the return
Return ==
    /\ pc = "return"
    /\ response' = [response EXCEPT !.ok = okOnReturn(response)]
    /\ pc' = "done"
    /\ UNCHANGED <<req, checkedMetadata, shardingEnabled, metadata, shardName, lockHeld,
                   oplog, i, stats, numItemErrors, staleBatch, error, upsertedID,
                   opSuccess, faults, lastAttempt, attemptIndex, outcomes, hist>>

Next ==
    \/ LoopHead
    \/ AcquireLock
    \/ DoWrite
    \/ Touch
    \/ ItemDone
    \/ AfterLoop
    \/ ParseWriteConcern
    \/ WaitForWriteConcern
    \/ SetBody
    \/ StaleSetShardName
    \/ StaleRefresh
    \/ Return

Spec == Init /\ [][Next]_vars

\* The client sends the request it sent before once more, to the same process.
Resubmit ==
    /\ pc = "done"
    /\ hist.batch < MaxBatches
    /\ pc' = "loop"
    /\ i' = 0
    /\ stats' = ZeroStats
    /\ numItemErrors' = 0
    /\ staleBatch' = FALSE
    /\ error' = NoError
    /\ upsertedID' = 0
    /\ opSuccess' = TRUE
    /\ faults' = 0
    /\ response' = EmptyResponse
    /\ lastAttempt' = NoAttempt
    /\ attemptIndex' = -1
    /\ outcomes' = <<>>
    /\ hist' = [NoHistory EXCEPT !.batch = hist.batch + 1,
                                 !.prevStaleOlder = hist.staleOlder,
                                 !.prevRefresh = hist.refresh]
    /\ UNCHANGED <<req, checkedMetadata, shardingEnabled, metadata, shardName, lockHeld, oplog>>

\* insert requests that declare the version of a sharded collection (the only
\* versions that can be older than a cached one), sent to a sharded process
InitResubmit ==
    /\ Init
    /\ req.type = BatchType_Insert
    /\ req.shardVersionSet
    /\ req.shardVersion \in ShardedVersions
    /\ shardingEnabled

NextResubmit == Next \/ Resubmit

SpecResubmit == InitResubmit /\ [][NextResubmit]_vars

\* ------------------------------------------- several batches on one namespace
\* doWrite: Lock::assertWriteLocked( targetingNS ) and
\* metadata = shardingState.getCollectionMetadata( targetingNS ), the read of the
\* cache the version check and the unique index check then work on
GetCollectionMetadata ==
    /\ pc = "write"
    /\ lockHeld
    /\ checkedMetadata' = metadata
    /\ pc' = "checked"
    /\ UNCHANGED <<req, shardingEnabled, metadata, shardName, lockHeld, oplog, i, stats,
                   numItemErrors, staleBatch, error, upsertedID, opSuccess, faults,
                   response, lastAttempt, attemptIndex, outcomes, hist>>

\* doWrite after the read of the cache: the version check against the metadata
\* read, the handler, and the end of the lock's scope in applyWriteItem
DoWriteChecked ==
    /\ pc = "checked"
    /\ ApplyWrite(checkedMetadata)
    /\ checkedMetadata' = NoMetadata

\* Another batch on the same namespace, sent as the shard `name`, met a stale
\* version and starts its stale handling: its setShardName gives the process
\* the name when none was set.
OtherSetShardName ==
    /\ pc \notin {"done", "aborted", "asserted"}
    /\ \E name \in ShardNames :
         /\ shardName' = setShardName(shardName, name).shardName
         /\ shardName' # shardName
    /\ UNCHANGED <<req, checkedMetadata, shardingEnabled, metadata, lockHeld, oplog,
                   pc, i, stats, numItemErrors, staleBatch, error, upsertedID,
                   opSuccess, faults, response, lastAttempt, attemptIndex, outcomes,
                   hist>>

\* The other batch, whose shard name the process has accepted (the process has
\* a name then), ends its stale handling with a refreshMetadataIfNeeded that
\* puts other metadata into the cache.  executeBatch calls the refresh with no
\* lock on the namespace, and the cache is refreshed out of band, with no
\* synchronization with the batches that hold the namespace's write lock.
OtherRefresh ==
    /\ pc \notin {"done", "aborted", "asserted"}
    /\ shardName # ""
    /\ metadata' \in Refreshed(metadata, req.shardVersion) \ {metadata}
    /\ UNCHANGED <<req, checkedMetadata, shardingEnabled, shardName, lockHeld, oplog,
                   pc, i, stats, numItemErrors, staleBatch, error, upsertedID,
                   opSuccess, faults, response, lastAttempt, attemptIndex, outcomes,
                   hist>>

\* insert requests that declare the version of a sharded collection, sent to a
\* sharded process: requests whose attempts are checked against the cache, for
\* the stale version and for the unique index.  Other batches may have named
\* the process already, with any shard name.
InitConcurrent ==
    /\ req \in Requests
    /\ req.type = BatchType_Insert
    /\ req.shardVersionSet
    /\ req.shardVersion \in ShardedVersions
    /\ shardingEnabled = TRUE
    /\ metadata \in Metadatas
    /\ shardName \in {""} \cup ShardNames
    /\ lockHeld = FALSE
    /\ checkedMetadata = NoMetadata
    /\ oplog = 0
    /\ Locals

NextConcurrent ==
    \/ LoopHead
    \/ AcquireLock
    \/ GetCollectionMetadata
    \/ DoWriteChecked
    \/ Touch
    \/ ItemDone
    \/ AfterLoop
    \/ ParseWriteConcern
    \/ WaitForWriteConcern
    \/ SetBody
    \/ StaleSetShardName
    \/ StaleRefresh
    \/ Return
    \/ OtherSetShardName
    \/ OtherRefresh

SpecConcurrent == InitConcurrent /\ [][NextConcurrent]_vars

\* ------------------------------------------------------------ properties
\* positions of executeBatch after the item loop
AfterLoopPcs == {"lastop", "wcparse", "wait", "body", "stale", "refresh", "return",
                 "asserted", "done"}

\* number of items for which applyWriteItem returned true
Successes == Cardinality({k \in 1..Len(outcomes) : outcomes[k]})

\* the item indexes the error list and the upsert details of the response name
ErrorIndexes == {response.errDetails[k].index : k \in 1..Len(response.errDetails)}
UpsertIndexes == {response.upsertDetails[k].index : k \in 1..Len(response.upsertDetails)}

\* the n a reader of the response finds: 0 when setN was not called
ReportedN == IF response.n = -1 THEN 0 ELSE response.n

\* the version the cache holds for the targeting namespace
LocalVersion == IF metadata.present THEN metadata.shardVersion ELSE UNSHARDED

\* the request inserts documents into an ordinary collection
DocumentInserts == req.type = BatchType_Insert /\ ~req.systemIndexes

\* an ordered batch that has counted an error is past its loop: the failed item
\* is the last one for which a lock was taken, and nothing names a later item
C1_Stopped ==
    req.ordered /\ numItemErrors > 0 =>
        /\ pc \in AfterLoopPcs
        /\ ~lockHeld
        /\ numItemErrors = 1
        /\ Len(outcomes) = attemptIndex + 1
        /\ ~outcomes[Len(outcomes)]
        /\ \A k \in ErrorIndexes : k = attemptIndex
        /\ \A k \in UpsertIndexes : k < attemptIndex

\* once an ordered batch has counted an error, no step takes the lock, calls
\* doWrite, or changes the stats, the oplog, the error list or the upsert details
C1_NoLaterAttempt ==
    req.ordered /\ numItemErrors > 0 =>
        /\ UNCHANGED <<stats, oplog, lockHeld, attemptIndex, outcomes, lastAttempt>>
        /\ response'.errDetails = response.errDetails
        /\ response'.upsertDetails = response.upsertDetails

\* the ordered batch [ok, fail, ok] has returned
C1_OkFailOk ==
    /\ pc = "done"
    /\ req.ordered
    /\ req.numItems = 3
    /\ Len(outcomes) >= 2
    /\ outcomes[1]
    /\ ~outcomes[2]

\* C1 as written: in an ordered batch no item after a failed one is attempted or
\* reported, and the batch [ok, fail, ok] returns exactly one error, at index 1,
\* and n = 1.
C1_Original ==
    /\ C1_Stopped
    /\ C1_OkFailOk =>
          /\ Len(response.errDetails) = 1
          /\ response.errDetails[1].index = 1
          /\ ReportedN = 1

\* C1 amended: in an ordered batch no item after a failed one is attempted (no
\* lock, no version check, no handler call) and none contributes to the error
\* list, the upsert details or the stats; the verbose batch [ok, fail, ok]
\* returns exactly one error, at index 1, and n = the number of documents item 0
\* affected, which is 1 for a document insert; not verbose, it returns neither
\* an error list nor n.
C1_OrderedStop ==
    /\ [](/\ C1_Stopped
          /\ C1_OkFailOk =>
                /\ Len(outcomes) = 2
                /\ IF req.verbose
                   THEN /\ Len(response.errDetails) = 1
                        /\ response.errDetails[1].index = 1
                        /\ response.n = stats.numInserted + stats.numUpserted
                                        + stats.numUpdated + stats.numDeleted
                        /\ DocumentInserts => response.n = 1
                   ELSE /\ response.errDetails = <<>>
                        /\ response.n = -1)
    /\ [][C1_NoLaterAttempt]_vars

C1_Witness ==
    /\ C1_OkFailOk
    /\ req.verbose
    /\ DocumentInserts
    /\ attemptIndex = 1
    /\ response.n = 1
    /\ Len(response.errDetails) = 1

\* the unordered batch [ok, fail, ok] has returned
C2_OkFailOk ==
    /\ pc = "done"
    /\ ~req.ordered
    /\ outcomes = <<TRUE, FALSE, TRUE>>

\* every item of a returned unordered batch was attempted
C2_AllAttempted ==
    pc = "done" /\ ~req.ordered =>
        /\ Len(outcomes) = req.numItems
        /\ attemptIndex = req.numItems - 1

\* C2 as written: an unordered batch attempts every item, each failed item has
\* its own error entry at its index, and [ok, fail, ok] returns n = 2 and exactly
\* one error, at index 1.
C2_Original ==
    /\ C2_AllAttempted
    /\ pc = "done" /\ ~req.ordered =>
          /\ ErrorIndexes = {k \in 0..(Len(outcomes) - 1) : ~outcomes[k + 1]}
          /\ Len(response.errDetails) = Cardinality(ErrorIndexes)
    /\ C2_OkFailOk =>
          /\ ReportedN = 2
          /\ Len(response.errDetails) = 1
          /\ response.errDetails[1].index = 1

\* C2 amended: an unordered batch attempts every item however many failed; when
\* verbose each failed item has its own error entry at its index, and
\* [ok, fail, ok] returns exactly one error, at index 1, and n = the number of
\* documents items 0 and 2 affected, which is 2 for document inserts; not
\* verbose, the response has neither an error list nor n.
C2_UnorderedContinues ==
    /\ C2_AllAttempted
    /\ pc = "done" /\ ~req.ordered =>
          IF req.verbose
          THEN /\ ErrorIndexes = {k \in 0..(Len(outcomes) - 1) : ~outcomes[k + 1]}
               /\ Len(response.errDetails) = Cardinality(ErrorIndexes)
               /\ response.n = stats.numInserted + stats.numUpserted
                               + stats.numUpdated + stats.numDeleted
          ELSE response.errDetails = <<>> /\ response.n = -1
    /\ C2_OkFailOk /\ req.verbose =>
          /\ Len(response.errDetails) = 1
          /\ response.errDetails[1].index = 1
          /\ DocumentInserts => response.n = 2

C2_Witness ==
    /\ C2_OkFailOk
    /\ req.verbose
    /\ DocumentInserts
    /\ response.n = 2
    /\ ErrorIndexes = {1}

\* C3 as written: the n of every response is the number of items that succeeded.
C3_Original == pc = "done" => ReportedN = Successes

\* C3 amended: the n of a verbose response is numInserted + numUpserted +
\* numUpdated + numDeleted, the number of documents the successful items
\* inserted, upserted, matched or deleted; it is the number of successful items
\* for a batch of document inserts and at most that number for a batch of index
\* inserts; a response that is not verbose carries no n.
C3_NCountsDocuments ==
    pc = "done" =>
        IF req.verbose
        THEN /\ response.n = stats.numInserted + stats.numUpserted
                             + stats.numUpdated + stats.numDeleted
             /\ DocumentInserts => response.n = Successes
             /\ req.type = BatchType_Insert => response.n <= Successes
             /\ Successes = 0 => response.n = 0
        ELSE response.n = -1

C3_Witness ==
    /\ pc = "done"
    /\ req.verbose
    /\ DocumentInserts
    /\ Successes = 2
    /\ Len(outcomes) = 3
    /\ response.n = 2

\* C4 as written: errors listed + successful items = items attempted, at most
\* the batch length, and no entry names an item that was not attempted.
C4_Original ==
    pc = "done" =>
        /\ Len(response.errDetails) + Successes = Len(outcomes)
        /\ Len(outcomes) <= req.numItems
        /\ \A k \in ErrorIndexes \cup UpsertIndexes : k < Len(outcomes)

\* C4 amended: when executeBatch returns, the items that failed plus the items
\* that succeeded are the items attempted, at most the batch length; the error
\* list of a verbose response has one entry for each item that failed, that of
\* a response that is not verbose is empty; no entry names an item that was not
\* attempted, and an ordered batch attempted nothing after its first failure.
C4_Accounting ==
    pc = "done" =>
        /\ numItemErrors + Successes = Len(outcomes)
        /\ Len(outcomes) = attemptIndex + 1
        /\ Len(outcomes) <= req.numItems
        /\ Len(response.errDetails) = IF req.verbose THEN numItemErrors ELSE 0
        /\ req.verbose => Len(response.errDetails) + Successes = Len(outcomes)
        /\ \A k \in ErrorIndexes \cup UpsertIndexes : k < Len(outcomes)
        /\ \A k \in ErrorIndexes : ~outcomes[k + 1]
        /\ \A k \in UpsertIndexes : outcomes[k + 1]
        /\ req.ordered /\ Len(outcomes) < req.numItems => ~outcomes[Len(outcomes)]

C4_Witness ==
    /\ pc = "done"
    /\ req.ordered
    /\ req.verbose
    /\ req.numItems = 3
    /\ outcomes = <<TRUE, FALSE>>
    /\ Len(response.errDetails) = 1

\* C5: write concern enforcement (the parse, then the wait) runs if and only if
\* at least one item succeeded; when none succeeded there is no wait and no
\* writeConcernError.
C5_Original ==
    pc = "done" =>
        /\ (hist.parseStatus # "") <=> (Successes > 0)
        /\ Successes = 0 => ~hist.waited /\ ~response.wcError.set

\* sharding is enabled and the request declares a version that is set, is not
\* the ignored sentinel and is not write compatible with the cached one
C6_Incompatible ==
    /\ shardingEnabled
    /\ req.hasMetadata
    /\ req.shardVersionSet
    /\ req.shardVersion # IGNORED
    /\ ~isWriteCompatibleWith(req.shardVersion, LocalVersion)

\* C6: an attempt whose declared version is incompatible with the cached one
\* returns failure without entering doInsert, doUpdate or doDelete: the store,
\* the oplog and the stats are unchanged, and the error has code
\* StaleShardVersion with the cached version as vWanted.
C6_StaleRefused ==
    [][pc = "write" /\ C6_Incompatible =>
          /\ pc' = "item"
          /\ ~opSuccess'
          /\ ~outcomes'[Len(outcomes')]
          /\ lastAttempt'.handler = 0
          /\ lastAttempt'.store = 0
          /\ lastAttempt'.logged = 0
          /\ stats' = stats
          /\ oplog' = oplog
          /\ upsertedID' = upsertedID
          /\ error'.code = StaleShardVersion
          /\ error'.vWanted = LocalVersion]_vars

C6_Witness ==
    /\ pc = "item"
    /\ C6_Incompatible
    /\ ~metadata.present
    /\ ~opSuccess
    /\ error = [code |-> StaleShardVersion, vWanted |-> UNSHARDED]
    /\ lastAttempt.handler = 0

\* the request is sent again after a batch that failed on a declared version
\* older than the cached one and whose metadata refresh worked
C7_Resubmitted ==
    /\ hist.batch = 2
    /\ hist.prevStaleOlder
    /\ hist.prevRefresh = "done"

\* C7 as written: the identical request, sent again after the refresh, succeeds;
\* read at its weakest, it is not refused as stale again.
C7_Original == C7_Resubmitted /\ pc = "done" /\ req.numItems > 0 => ~hist.staleSeen

\* C7 amended: after an insert batch has failed with the stale version code on
\* a declared version older than the cached one and its metadata refresh has
\* worked, each item of the identical request sent again passes the version
\* check if and only if the declared version is write compatible with the
\* version the refresh cached; otherwise it fails again with the stale version
\* code and the store's insert is not invoked.
C7_ResubmitFollowsCache ==
    C7_Resubmitted /\ pc = "item" =>
        IF isWriteCompatibleWith(req.shardVersion, LocalVersion)
        THEN lastAttempt.handler = 1 \/ error.code = CannotCreateIndex
        ELSE /\ ~opSuccess
             /\ error.code = StaleShardVersion
             /\ error.vWanted = LocalVersion
             /\ lastAttempt.handler = 0
             /\ lastAttempt.store = 0

C7_Witness ==
    /\ C7_Resubmitted
    /\ pc = "done"
    /\ req.numItems = 2
    /\ Successes = 2
    /\ ~hist.staleSeen

\* C8 as written: executeBatch triggers a metadata refresh if and only if an
\* attempted item failed with the stale version error.
C8_Original == pc = "done" => ((hist.refresh # "") <=> hist.staleSeen)

\* the steps of executeBatch from the stale handling on leave the response as
\* it was, but for the ok set on return
C8_ResponseKept ==
    response' = IF pc = "return" THEN [response EXCEPT !.ok = TRUE] ELSE response

\* C8 amended: if an attempted item failed with the stale version error and
\* the request's shard name is accepted (none was set before, or the same one),
\* executeBatch triggers a metadata refresh before it returns; if the shard
\* name differs from the one set before it triggers none, whether it then
\* returns or a debug build's assertion ends it; and if no item failed with
\* that error it triggers none and does not touch the shard name.  The refresh
\* comes after the item loop, write concern enforcement and setN, and changes
\* none of the errors, n or the writeConcernError of the response.
C8_RefreshOnStale ==
    /\ [](pc = "done" =>
             /\ (hist.setShardName # "") <=> hist.staleSeen
             /\ (hist.refresh # "") <=> (hist.staleSeen /\ hist.setShardName = "accepted"))
    /\ [](pc = "asserted" =>
             hist.staleSeen /\ hist.setShardName = "refused" /\ hist.refresh = "")
    /\ [](pc \in {"stale", "refresh"} => hist.staleSeen /\ hist.refresh = "")
    /\ [](hist.setShardName # "" => pc \in {"refresh", "return", "asserted", "done"})
    /\ [](hist.refresh # "" => pc \in {"return", "done"})
    /\ [][pc = "body" => pc' = IF hist.staleSeen THEN "stale" ELSE "return"]_vars
    /\ [][pc = "stale" =>
             /\ (pc' = "refresh") <=> shardName \in {"", RequestShardName}
             /\ (hist'.setShardName = "accepted") <=> (pc' = "refresh")]_vars
    /\ [][pc = "refresh" => hist'.refresh # "" /\ pc' = "return"]_vars
    /\ [][(pc \in {"stale", "refresh", "return"}) => C8_ResponseKept]_vars
    /\ [][pc \notin {"stale", "refresh"} => UNCHANGED <<metadata, shardName>>]_vars

C8_Witness ==
    /\ pc = "done"
    /\ hist.staleSeen
    /\ hist.refresh = "done"
    /\ hist.waited
    /\ response.wcError.set
    /\ Len(response.errDetails) = 1
    /\ metadata.present

\* C9: when the effective write concern fails to parse, executeBatch sets a
\* writeConcernError with the code of the parse failure and does not wait,
\* verbose or not.
C9_Original ==
    pc = "done" /\ hist.parseStatus \notin {"", OK} =>
        /\ response.wcError.set
        /\ response.wcError.code = hist.parseStatus
        /\ ~hist.waited

\* every item of the batch succeeded and the durability wait reported a timeout
C10_TimedOut ==
    /\ pc = "done"
    /\ Len(outcomes) = req.numItems
    /\ Successes = req.numItems
    /\ hist.waited
    /\ hist.waitResult.wTimedOut

\* C10 as written: whatever the status and err of a wait that timed out, the
\* response has ok, n = the success count and a writeConcernError whose info
\* marks the timeout.
C10_Original ==
    C10_TimedOut =>
        /\ response.ok
        /\ ReportedN = Successes
        /\ response.wcError.set
        /\ response.wcError.info = "wtimeout"

\* C10 amended: for a verbose batch whose items all succeed, whenever the wait
\* reports a timeout together with a status that is not OK or a non-empty err,
\* executeBatch returns ok, n = the number of documents affected (the success
\* count for document inserts) and a writeConcernError whose info marks the
\* timeout; when the wait reports a timeout with an OK status and an empty err,
\* or the batch is not verbose, it returns ok and no writeConcernError.
C10_TimeoutReported ==
    C10_TimedOut =>
        /\ response.ok
        /\ IF req.verbose /\ (hist.waitStatus # OK \/ hist.waitResult.err # "")
           THEN /\ response.wcError.set
                /\ response.wcError.info = "wtimeout"
                /\ response.wcError.code =
                      IF hist.waitStatus = OK THEN WriteConcernFailed ELSE hist.waitStatus
                /\ response.n = stats.numInserted + stats.numUpserted
                                + stats.numUpdated + stats.numDeleted
                /\ DocumentInserts => response.n = Successes
           ELSE ~response.wcError.set

C10_Witness ==
    /\ C10_TimedOut
    /\ req.verbose
    /\ req.numItems = 2
    /\ hist.waitStatus # OK
    /\ response.wcError.info = "wtimeout"
    /\ response.n = 2

\* C11: write concern enforcement (the parse and the wait) changes nothing of
\* the response but its writeConcernError and nothing of the stats or of the
\* stale flag; after the item loop the error list and the upsert details stay
\* as they are; and executeBatch returns ok = true with n and nModified set
\* from the stats alone (when verbose), whatever write concern enforcement did.
C11_OnlyWCErrorChanges ==
    [][/\ pc \in {"wcparse", "wait"} =>
            /\ response' = [response EXCEPT !.wcError = response'.wcError]
            /\ stats' = stats
            /\ staleBatch' = staleBatch
            /\ numItemErrors' = numItemErrors
       /\ pc \in AfterLoopPcs =>
            /\ response'.errDetails = response.errDetails
            /\ response'.upsertDetails = response.upsertDetails
       /\ pc' = "done" /\ pc # "done" =>
            /\ response'.ok
            /\ response'.n = IF req.verbose THEN countN(stats) ELSE -1
            /\ response'.nModified =
                  IF req.verbose /\ req.type = BatchType_Update
                  THEN stats.numModified ELSE -1]_vars

\* a verbose batch with one success and one error has returned after its write
\* concern failed to parse
C11_Witness ==
    /\ pc = "done"
    /\ response.ok
    /\ hist.parseStatus = FailedToParse
    /\ response.wcError.set
    /\ response.wcError.code = FailedToParse
    /\ response.n >= 1
    /\ Len(response.errDetails) = 1

\* C12: every exception raised by the store or by validation while an item is
\* applied is caught inside doInsert, doUpdate or doDelete and converted into a
\* WriteErrorDetail carrying the exception's code; no exception but the
\* PageFaultException leaves the handler and none reaches executeBatch, which
\* sees only the boolean applyWriteItem returns.
C12_Original ==
    /\ ~lastAttempt.uncaught
    /\ pc # "aborted"
    /\ pc = "item" /\ hist.behaviour.kind = "throw" =>
          /\ ~opSuccess
          /\ error.code = hist.behaviour.code

\* C13: a successful update item is accounted in exactly one of two ways.  When
\* update() reports an upserted id, numUpserted grows by 1, numUpdated and
\* numModified stay, and (when verbose) one upsert detail with that id is
\* appended at the item's index; otherwise numUpdated grows by numMatched,
\* numModified by numDocsModified, numUpserted stays and no upsert detail is
\* appended.
C13_UpdateAccounting ==
    [][/\ pc = "write" /\ pc' = "item" /\ req.type = BatchType_Update /\ opSuccess' =>
            LET res == hist'.behaviour IN
            IF res.upserted # 0
            THEN /\ stats' = [stats EXCEPT !.numUpserted = @ + 1]
                 /\ upsertedID' = res.upserted
            ELSE /\ stats' = [stats EXCEPT !.numUpdated = @ + res.numMatched,
                                           !.numModified = @ + res.numDocsModified]
                 /\ upsertedID' = 0
       /\ pc = "item" /\ req.type = BatchType_Update /\ opSuccess =>
            LET res == hist.behaviour IN
            IF res.upserted # 0 /\ req.verbose
            THEN response'.upsertDetails =
                    Append(response.upsertDetails,
                           [index |-> i, upsertedID |-> res.upserted])
            ELSE response'.upsertDetails = response.upsertDetails]_vars

\* a verbose update batch has returned after an update that matched a
\* document and an upsert (whose UpdateResult also says numMatched = 1)
C13_Witness ==
    /\ pc = "done"
    /\ req.type = BatchType_Update
    /\ req.verbose
    /\ outcomes = <<TRUE, TRUE>>
    /\ stats.numUpdated = 1
    /\ stats.numUpserted = 1
    /\ Len(response.upsertDetails) = 1
    /\ response.upsertDetails[1].index = 1

\* C14: the items of a batch are applied one at a time in increasing index
\* order.  An attempt is always of item i; the first attempt of an item starts
\* when every item before it has returned its outcome; after a
\* PageFaultException the same item is attempted again, with no outcome
\* recorded and no index skipped; any other end of doWrite leaves the retry
\* loop; and i never moves by more than one.
C14_OneAtATime ==
    [][/\ pc = "lock" =>
            /\ attemptIndex' = i
            /\ Len(outcomes) = i
            /\ IF faults = 0
               THEN attemptIndex' = attemptIndex + 1
               ELSE attemptIndex' = attemptIndex /\ lastAttempt.fault
       /\ pc # "lock" => attemptIndex' = attemptIndex
       /\ pc = "write" =>
            IF lastAttempt'.fault
            THEN pc' = "touch" /\ outcomes' = outcomes
            ELSE pc' \in {"item", "aborted"}
       /\ pc = "touch" => pc' = "lock" /\ i' = i /\ outcomes' = outcomes
       /\ pc = "item" =>
            /\ Len(outcomes) = i + 1
            /\ pc' \in {"loop", "lastop"}
            /\ faults' = 0
       /\ i' \in {i, i + 1}]_vars

\* item 1 has raised a PageFaultException after item 0 returned, and is about
\* to be attempted again
C14_Witness ==
    /\ pc = "lock"
    /\ i = 1
    /\ faults = 1
    /\ attemptIndex = 1
    /\ Len(outcomes) = 1
    /\ lastAttempt.fault

\* C15: every attempt takes the namespace write lock afresh (it is free when
\* the attempt starts) and the lock is released however the attempt ends:
\* return, item failure, PageFaultException or any other exception.  At every
\* other position of the batch (touching the page that faulted, between two
\* attempts, between items, write concern parse and wait, stale handling with
\* its metadata refresh, after the return) the batch holds no lock.
C15_LockPerAttempt ==
    [][/\ pc = "lock" => ~lockHeld /\ lockHeld' /\ pc' = "write"
       /\ pc = "write" => lockHeld /\ ~lockHeld'
       /\ pc \notin {"lock", "write"} => ~lockHeld /\ ~lockHeld'
       /\ pc' # "write" => ~lockHeld']_vars

\* the first attempt of item 1 has ended with a PageFaultException: the page is
\* about to be touched and the lock is free
C15_Witness ==
    /\ pc = "touch"
    /\ i = 1
    /\ faults = 0
    /\ lastAttempt.fault
    /\ ~lockHeld

C17_CountersMonotone ==
    [][/\ pc = "loop" /\ i = 0 => stats = ZeroStats
       /\ stats'.numInserted >= stats.numInserted
       /\ stats'.numUpdated >= stats.numUpdated
       /\ stats'.numModified >= stats.numModified
       /\ stats'.numUpserted >= stats.numUpserted
       /\ stats'.numDeleted >= stats.numDeleted
       /\ ~(pc = "write" /\ pc' = "item" /\ opSuccess') => stats' = stats]_vars

\* after an item that succeeded and was counted, the next item has failed in
\* the store
C17_Witness ==
    /\ pc = "item"
    /\ outcomes = <<TRUE, FALSE>>
    /\ ~opSuccess
    /\ lastAttempt.store = 1
    /\ error.code = DuplicateKey
    /\ stats # ZeroStats

\* C18: in a verbose batch, every entry of the error list and of the upsert
\* details names an item index in 0 .. numItems - 1, each list is in strictly
\* increasing index order (so no index occurs twice in a list), and no index
\* occurs in both lists.
C18_IndexesValid ==
    req.verbose =>
        /\ \A k \in 1..Len(response.errDetails) :
              /\ response.errDetails[k].index \in 0..(req.numItems - 1)
              /\ k > 1 => response.errDetails[k - 1].index < response.errDetails[k].index
        /\ \A k \in 1..Len(response.upsertDetails) :
              /\ response.upsertDetails[k].index \in 0..(req.numItems - 1)
              /\ k > 1 => response.upsertDetails[k - 1].index
                             < response.upsertDetails[k].index
        /\ ErrorIndexes \cap UpsertIndexes = {}

\* a verbose update batch of three items has returned with two upsert details
\* and one error detail
C18_Witness ==
    /\ pc = "done"
    /\ req.verbose
    /\ req.numItems = 3
    /\ Len(response.upsertDetails) = 2
    /\ Len(response.errDetails) = 1

\* C19: every insert item for which doInsert returns success, the index
\* creation that finds the index already there included, has written its
\* oplog record during that attempt, after the store's mutating call and as
\* the last call before success is returned.
C19_Original ==
    pc = "item" /\ req.type = BatchType_Insert /\ opSuccess /\ lastAttempt.handler = 1 =>
        /\ lastAttempt.logged = 1
        /\ Len(lastAttempt.calls) = 2
        /\ lastAttempt.calls[2] = "logOp"

\* executeBatch runs on: the thread that called it takes each next step of the
\* batch, every lock acquisition is granted and the write concern wait returns;
\* the store raises at most MaxFaults PageFaultExceptions per item.
SpecFair == Init /\ [][Next]_vars /\ WF_vars(Next)

\* C20: executeBatch on a finite batch eventually returns with ok = true,
\* provided every item raises the PageFaultException only finitely many times,
\* every lock acquisition is granted and the write concern wait returns.
C20_Original == <>(pc = "done" /\ response.ok)

\* C21: the assertion of the stale handling always holds: whenever a stale item
\* was detected and setShardName refuses the request's shard name, every item
\* of the batch has failed (numItemErrors == numBatchItems), for ordered and
\* unordered batches of any length.
C21_Original ==
    /\ pc = "stale" /\ ~setShardName(shardName, RequestShardName).ok =>
          allItemsFailed(numItemErrors, req.numItems)
    /\ hist.setShardName = "refused" => allItemsFailed(numItemErrors, req.numItems)
    /\ pc # "asserted"

\* C22: an insert into an ordinary collection whose insertDocument fails, so
\* that doInsert returns failure, writes no oplog record for the item: the
\* oplog holds a record only for the inserts reported as successful.
C22_Original ==
    /\ pc = "item" /\ DocumentInserts /\ ~opSuccess =>
          /\ lastAttempt.logged = 0
          /\ \A k \in 1..Len(lastAttempt.calls) : lastAttempt.calls[k] # "logOp"
    /\ DocumentInserts /\ pc \notin {"write", "touch", "aborted"} => oplog = Successes

\* C23: an item that was retried after PageFaultExceptions contributes what
\* one attempt without a fault contributes.  An attempt that ends in a
\* PageFaultException, and the touch that follows it, change no counter, no
\* error, no upserted id, no outcome and nothing of the response; the attempt
\* that ends the item adds the stats of that one attempt and records exactly
\* one outcome, whatever the number of faults before it; and the loop body then
\* counts one error or none and appends at most one entry to the response.
C23_RetriesLeaveNoTrace ==
    [][/\ (pc = "write" /\ pc' = "touch") \/ pc = "touch" =>
            UNCHANGED <<stats, error, upsertedID, opSuccess, outcomes, response,
                        numItemErrors, staleBatch, i>>
       /\ pc = "write" /\ pc' = "item" =>
            LET a == doWrite(req, shardingEnabled, metadata, hist'.behaviour) IN
            /\ stats' = AddStats(stats, a.dstats)
            /\ outcomes' = Append(outcomes, a.ret)
            /\ upsertedID' = a.upsertedID
            /\ ~a.ret => error' = a.err
       /\ pc = "item" =>
            /\ Len(outcomes) = i + 1
            /\ numItemErrors' = numItemErrors + (IF opSuccess THEN 0 ELSE 1)
            /\ Len(response'.errDetails) =
                  Len(response.errDetails)
                  + (IF ~opSuccess /\ req.verbose THEN 1 ELSE 0)
            /\ Len(response'.upsertDetails) =
                  Len(response.upsertDetails)
                  + (IF opSuccess /\ upsertedID # 0 /\ req.verbose THEN 1 ELSE 0)]_vars

\* the second item of an update batch has ended in an upsert on its second
\* attempt, the first having raised a PageFaultException
C23_Witness ==
    /\ pc = "item"
    /\ i = 1
    /\ faults = 1
    /\ opSuccess
    /\ req.type = BatchType_Update
    /\ upsertedID # 0
    /\ stats.numUpserted = 1
    /\ Len(outcomes) = 2

\* the request as it is with the other value of verbose
OtherVerbose == [req EXCEPT !.verbose = ~req.verbose]

\* C24: verbose decides only what is reported.  Every step of executeBatch
\* takes the batch to the same next item, the same attempt, the same store
\* calls, oplog records and stats, the same stop of an ordered batch and the
\* same decision to refresh the metadata as it would with the other value of
\* verbose: each of them is determined by the request without its verbose
\* flag, the store's behaviour, the cached metadata and the shard name.
C24_VerboseOnlyReports ==
    [][/\ pc = "loop" => pc' = IF i < req.numItems THEN "lock" ELSE "lastop"
       /\ pc = "lock" => pc' = "write" /\ attemptIndex' = i
       /\ pc = "write" =>
            LET a == doWrite(OtherVerbose, shardingEnabled, metadata, hist'.behaviour) IN
            /\ lastAttempt' = a
            /\ stats' = AddStats(stats, a.dstats)
            /\ oplog' = oplog + a.logged
            /\ pc' = IF a.fault THEN "touch" ELSE IF a.uncaught THEN "aborted" ELSE "item"
            /\ pc' = "item" => opSuccess' = a.ret /\ outcomes' = Append(outcomes, a.ret)
       /\ pc = "item" =>
            /\ i' = IF ~opSuccess /\ req.ordered THEN i ELSE i + 1
            /\ pc' = IF ~opSuccess /\ req.ordered THEN "lastop" ELSE "loop"
            /\ numItemErrors' = numItemErrors + (IF opSuccess THEN 0 ELSE 1)
            /\ staleBatch' =
                  (staleBatch \/ (~opSuccess /\ lastAttempt.err.code = StaleShardVersion))
       /\ pc # "write" => UNCHANGED <<stats, oplog, outcomes>>
       /\ pc \in AfterLoopPcs => UNCHANGED <<i, attemptIndex, numItemErrors, staleBatch>>
       /\ pc = "body" => pc' = IF staleBatch THEN "stale" ELSE "return"
       /\ pc = "stale" =>
            /\ hist'.setShardName # ""
            /\ shardName' = IF shardName = "" THEN RequestShardName ELSE shardName
            /\ (pc' = "refresh") <=> shardName \in {"", RequestShardName}
            /\ pc' = "asserted" => ~allItemsFailed(numItemErrors, req.numItems)
            /\ pc' \in {"refresh", "return", "asserted"}
       /\ pc = "refresh" => hist'.refresh # "" /\ pc' = "return"
       /\ pc # "stale" => UNCHANGED shardName
       /\ pc # "refresh" => UNCHANGED metadata]_vars

\* an ordered batch that is not verbose has stopped at its stale first item and
\* has refreshed the metadata before returning
C24_Witness ==
    /\ pc = "done"
    /\ ~req.verbose
    /\ req.ordered
    /\ req.numItems = 2
    /\ outcomes = <<FALSE>>
    /\ staleBatch
    /\ hist.refresh = "done"
    /\ response.errDetails = <<>>
====
